---- MODULE Spec2Model ----
(***************************************************************************)
(* Model of jwst/pipeline/calwebb_coron3.py: Coron3Pipeline.process and    *)
(* the module-level function mk_filename.                                  *)
(*                                                                         *)
(* Strings are sequences of one-character strings, so that str.upper,      *)
(* str.rfind, slicing and the os.path functions are computed character by  *)
(* character as Python computes them (POSIX flavour of os.path).           *)
(***************************************************************************)
EXTENDS Integers, Sequences, FiniteSets, TLC

(***************************************************************************)
(* Bounds of the model.                                                    *)
(***************************************************************************)
MaxMembers == 3
MaxPlanes == 2

(***************************************************************************)
(* Python string primitives.                                               *)
(***************************************************************************)
Lower == <<"a","b","c","d","e","f","g","h","i","j","k","l","m",
           "n","o","p","q","r","s","t","u","v","w","x","y","z">>
UpperCase == <<"A","B","C","D","E","F","G","H","I","J","K","L","M",
               "N","O","P","Q","R","S","T","U","V","W","X","Y","Z">>

\* str.upper() on one character
UpperChar(c) ==
  IF \E k \in 1..26 : Lower[k] = c
  THEN UpperCase[CHOOSE k \in 1..26 : Lower[k] = c]
  ELSE c

\* str.upper()
Upper(s) == [k \in 1..Len(s) |-> UpperChar(s[k])]

\* s.rfind(c): 0-based index of the last occurrence of c in s, -1 if none
RFind(s, c) ==
  IF \E k \in 1..Len(s) : s[k] = c
  THEN (CHOOSE k \in 1..Len(s) : s[k] = c /\ \A j \in (k+1)..Len(s) : s[j] # c) - 1
  ELSE -1

\* s[:n] with Python's meaning of a negative or too large n
SliceTo(s, n) ==
  IF n >= 0
  THEN SubSeq(s, 1, IF n < Len(s) THEN n ELSE Len(s))
  ELSE SubSeq(s, 1, Len(s) + n)

\* s[n:] for n >= 0
SliceFrom(s, n) == SubSeq(s, n + 1, Len(s))

\* s.rstrip('/')
RECURSIVE RStripSep(_)
RStripSep(s) ==
  IF Len(s) > 0 /\ s[Len(s)] = "/" THEN RStripSep(SubSeq(s, 1, Len(s) - 1)) ELSE s

\* posixpath.split(p): <<head, tail>>
OsPathSplit(p) ==
  LET k == RFind(p, "/") + 1
      head == SliceTo(p, k)
      tail == SliceFrom(p, k)
  IN  IF head # <<>> /\ (\E j \in 1..Len(head) : head[j] # "/")
      THEN <<RStripSep(head), tail>>
      ELSE <<head, tail>>

\* posixpath.join(a, b)
OsPathJoin(a, b) ==
  IF Len(b) > 0 /\ b[1] = "/" THEN b
  ELSE IF a = <<>> \/ a[Len(a)] = "/" THEN a \o b
  ELSE a \o <<"/">> \o b

\* posixpath.splitext(p): <<root, ext>>; leading dots of the last component
\* do not start an extension
OsPathSplitext(p) ==
  LET sepIndex == RFind(p, "/")
      dotIndex == RFind(p, ".")
  IN  IF dotIndex > sepIndex
         /\ \E f \in (sepIndex + 1)..(dotIndex - 1) : p[f + 1] # "."
      THEN <<SliceTo(p, dotIndex), SliceFrom(p, dotIndex)>>
      ELSE <<p, <<>>>>

(***************************************************************************)
(* The optional output directory: None or a path.                          *)
(***************************************************************************)
None == [isNone |-> TRUE, val |-> <<>>]
Some(d) == [isNone |-> FALSE, val |-> d]

(***************************************************************************)
(* mk_filename(output_dir, filename, suffix)                               *)
(***************************************************************************)
mk_filename(output_dir, filename, suffix) ==
  LET \* lines 163-166: fname, as the one element of a set
      fnames == { IF ~output_dir.isNone
                  THEN OsPathJoin(output_dir.val, OsPathSplit(filename)[2])
                  ELSE filename }
      \* line 168: <<base, ext>> = os.path.splitext(fname)
      splits == { OsPathSplitext(fname) : fname \in fnames }
  IN  \* line 169
      CHOOSE name \in { SliceTo(be[1], RFind(be[1], "_")) \o <<"_">> \o suffix \o be[2] :
                          be \in splits } : TRUE

(***************************************************************************)
(* Input universe: the association table and the pipeline's output_dir.    *)
(***************************************************************************)
EXP_PSF == <<"P","S","F">>
EXP_SCIENCE == <<"S","C","I","E","N","C","E">>

\* the members an association may list: exposure types in several spellings
\* and one unrecognised type; file names with and without a directory
MemberPool ==
  { [exptype |-> <<"P","s","f">>, expname |-> <<"r","_","b",".","f">>],
    [exptype |-> <<"S","C","I","E","N","C","E">>, expname |-> <<"a","_","c",".","f">>],
    [exptype |-> <<"s","c","i","e","n","c","e">>, expname |-> <<"d","/","a","_","c",".","f">>],
    [exptype |-> <<"b","k","g">>, expname |-> <<"a","_","c",".","f">>] }

\* a product of the association that is not the first one
OtherProduct ==
  [name |-> <<"q","_","{product_type}",".","f">>,
   members |-> << [exptype |-> <<"P","S","F">>, expname |-> <<"z","_","a",".","f">>],
                  [exptype |-> <<"S","C","I","E","N","C","E">>, expname |-> <<"z","_","c",".","f">>] >>]

\* the association tables, but for the members of the first product: one
\* product named without a directory, or two products, the first named with
\* a directory; "{product_type}" is the replacement field of a product name
Associations(first) ==
  { [products |-> << [name |-> <<"p","_","{product_type}",".","f">>,
                      members |-> first] >>],
    [products |-> << [name |-> <<"/","d","/","p","_","{product_type}",".","f">>,
                      members |-> first],
                     OtherProduct >>] }

\* self.output_dir of a run
OutputDirs == { None, Some(<<"o">>) }

SeqsUpTo(S, n) == UNION { [1..k -> S] : k \in 0..n }

PSFSTACK == <<"p","s","f","s","t","a","c","k">>
PSFALIGN == <<"p","s","f","a","l","i","g","n">>
PSFSUB == <<"p","s","f","s","u","b">>
CORONCMB == <<"c","o","r","o","n","c","m","b">>

\* prod['name'].format(product_type=tag)
RECURSIVE Format(_, _)
Format(tmpl, tag) ==
  IF tmpl = <<>> THEN <<>>
  ELSE (IF Head(tmpl) = "{product_type}" THEN tag ELSE <<Head(tmpl)>>)
       \o Format(Tail(tmpl), tag)

(***************************************************************************)
(* State of one run of Coron3Pipeline.process.                             *)
(***************************************************************************)
VARIABLES
  pc,              \* position in process
  asn,             \* the loaded association: [products |-> <<...>>]
  output_dir,      \* self.output_dir
  psf_files,       \* list of PSF member file names
  targ_files,      \* list of science target member file names
  i,               \* index of the PSF file loop (0-based, as in the code)
  t,               \* number of targets the target loop has finished
  heap,            \* every data model created so far, by identity (1..Len)
  psf_models,      \* the locals of process: identities in heap, 0 = unbound
  psf_stack,
  psf_aligned,
  psf_sub,
  target_models,
  resample_input,
  result,
  events,          \* history: stage calls, opens, saves, closes, in order
  outlier_inplace, \* whether the outlier_detection step returns its argument
  nm               \* state of a stand-alone use of mk_filename

vars == <<pc, asn, output_dir, psf_files, targ_files, i, t, heap, psf_models,
          psf_stack, psf_aligned, psf_sub, target_models, resample_input,
          result, events, outlier_inplace, nm>>

locals == <<psf_models, psf_stack, psf_aligned, psf_sub, target_models,
            resample_input, result>>

\* an array plane psf_sub.data[k], psf_sub.err[k], psf_sub.dq[k]
Plane(obj, arr, k) == <<obj, arr, k>>
NoPlane == <<0, "none", 0>>

\* a freshly constructed data model or container
NewModel(role) ==
  [role |-> role, closes |-> 0, items |-> <<>>, planes |-> 0,
   data |-> NoPlane, err |-> NoPlane, dq |-> NoPlane, meta |-> 0, wcs |-> 0]

\* history records
Ev(op, name, obj, arg, file, coll) ==
  [op |-> op, name |-> name, obj |-> obj, arg |-> arg, file |-> file, coll |-> coll]
EvCall(stage, file, arg, coll) == Ev("call", stage, 0, arg, file, coll)
EvReturn(stage, obj, coll) == Ev("return", stage, obj, 0, <<>>, coll)
EvRaise(stage) == Ev("raise", stage, 0, 0, <<>>, <<>>)
EvOpen(obj, file) == Ev("open", "", obj, 0, file, <<>>)
EvSave(obj, file) == Ev("save", "", obj, 0, file, <<>>)
EvClose(obj) == Ev("close", "", obj, 0, <<>>, <<>>)

\* model.close()
Close(h, id) == [h EXCEPT ![id].closes = @ + 1]

\* Before process runs: the association table and output_dir are given.
NmIdle == [pc |-> "idle", output_dir |-> None, filename |-> <<>>, suffix |-> <<>>,
           once |-> <<>>, twice |-> <<>>]

Init ==
  /\ pc = "start"
  /\ \E first \in SeqsUpTo(MemberPool, MaxMembers) : asn \in Associations(first)
  /\ output_dir \in OutputDirs
  /\ outlier_inplace \in BOOLEAN
  /\ psf_files = <<>>
  /\ targ_files = <<>>
  /\ i = 0
  /\ t = 0
  /\ heap = <<>>
  /\ psf_models = 0 /\ psf_stack = 0 /\ psf_aligned = 0 /\ psf_sub = 0
  /\ target_models = 0 /\ resample_input = 0 /\ result = 0
  /\ events = <<>>
  /\ nm = NmIdle

\* prod = asn['products'][0]
prod == asn.products[1]

\* the member lists with member['exptype'] compared as written, without upper()
RECURSIVE SelectNames_CaseSensitive(_, _)
SelectNames_CaseSensitive(members, exptype) ==
  IF members = <<>> THEN <<>>
  ELSE (IF Head(members).exptype = exptype
        THEN <<Head(members).expname>> ELSE <<>>)
       \o SelectNames_CaseSensitive(Tail(members), exptype)

\* lines 57-68: the member lists, in the order of prod['members']
RECURSIVE SelectNames(_, _)
SelectNames(members, exptype) ==
  IF members = <<>> THEN <<>>
  ELSE (IF Upper(Head(members).exptype) = exptype
        THEN <<Head(members).expname>> ELSE <<>>)
       \o SelectNames(Tail(members), exptype)

Partition ==
  /\ pc = "start"
  /\ psf_files' = SelectNames(prod.members, EXP_PSF)
  /\ targ_files' = SelectNames(prod.members, EXP_SCIENCE)
  /\ pc' = "partitioned"
  /\ UNCHANGED <<asn, output_dir, i, t, heap, locals, events, outlier_inplace, nm>>

\* lines 71-74
AbortNoPsf ==
  /\ pc = "partitioned"
  /\ Len(psf_files) = 0
  /\ pc' = "abort"
  /\ UNCHANGED <<asn, output_dir, psf_files, targ_files, i, t, heap, locals, events, outlier_inplace, nm>>

\* lines 76-79
AbortNoTarg ==
  /\ pc = "partitioned"
  /\ Len(psf_files) # 0
  /\ Len(targ_files) = 0
  /\ pc' = "abort"
  /\ UNCHANGED <<asn, output_dir, psf_files, targ_files, i, t, heap, locals, events, outlier_inplace, nm>>

\* process without the check of lines 71-74
NewPsfModels_NoPsfCheck ==
  /\ pc = "partitioned"
  /\ Len(targ_files) # 0
  /\ heap' = Append(heap, NewModel("psf_models"))
  /\ psf_models' = Len(heap) + 1
  /\ i' = 0
  /\ pc' = "open_psf"
  /\ UNCHANGED <<asn, output_dir, psf_files, targ_files, t, psf_stack, psf_aligned,
                 psf_sub, target_models, resample_input, result, events, outlier_inplace, nm>>

\* process without the check of lines 76-79
NewPsfModels_NoTargCheck ==
  /\ pc = "partitioned"
  /\ Len(psf_files) # 0
  /\ heap' = Append(heap, NewModel("psf_models"))
  /\ psf_models' = Len(heap) + 1
  /\ i' = 0
  /\ pc' = "open_psf"
  /\ UNCHANGED <<asn, output_dir, psf_files, targ_files, t, psf_stack, psf_aligned,
                 psf_sub, target_models, resample_input, result, events, outlier_inplace, nm>>

\* line 82: psf_models = datamodels.ModelContainer()
NewPsfModels ==
  /\ pc = "partitioned"
  /\ Len(psf_files) # 0
  /\ Len(targ_files) # 0
  /\ heap' = Append(heap, NewModel("psf_models"))
  /\ psf_models' = Len(heap) + 1
  /\ i' = 0
  /\ pc' = "open_psf"
  /\ UNCHANGED <<asn, output_dir, psf_files, targ_files, t, psf_stack, psf_aligned,
                 psf_sub, target_models, resample_input, result, events, outlier_inplace, nm>>

\* lines 83-86, one iteration: open the file, append the model, close it
OpenPsf ==
  /\ pc = "open_psf"
  /\ i < Len(psf_files)
  /\ LET input == Len(heap) + 1
         h1 == Append(heap, NewModel("psf_input"))
         h2 == [h1 EXCEPT ![psf_models].items = Append(@, input)]
     IN  /\ heap' = Close(h2, input)
         /\ events' = events \o <<EvOpen(input, psf_files[i + 1]), EvClose(input)>>
  /\ i' = i + 1
  /\ UNCHANGED <<pc, asn, output_dir, psf_files, targ_files, t, locals, outlier_inplace, nm>>

\* line 84 raises: the file cannot be opened as a CubeModel
OpenPsfFails ==
  /\ pc = "open_psf"
  /\ i < Len(psf_files)
  /\ events' = events \o <<Ev("raise", "open", 0, 0, psf_files[i + 1], <<>>)>>
  /\ pc' = "failed"
  /\ UNCHANGED <<asn, output_dir, psf_files, targ_files, i, t, heap, locals, outlier_inplace, nm>>

\* lines 90-91 with the close applied to the stack instead of psf_models
StackRefs_ClosesStack ==
  /\ pc = "open_psf"
  /\ i = Len(psf_files)
  /\ LET stack == Len(heap) + 1
     IN  /\ heap' = Close(Append(heap, NewModel("psf_stack")), stack)
         /\ psf_stack' = stack
         /\ events' = events \o
              <<EvCall("stack_refs", <<>>, psf_models, heap[psf_models].items),
                EvReturn("stack_refs", stack, <<>>),
                EvClose(stack)>>
  /\ pc' = "save_stack"
  /\ UNCHANGED <<asn, output_dir, psf_files, targ_files, i, t, psf_models, psf_aligned,
                 psf_sub, target_models, resample_input, result, outlier_inplace, nm>>

\* lines 90-91: psf_stack = self.stack_refs(psf_models); psf_models.close()
StackRefs ==
  /\ pc = "open_psf"
  /\ i = Len(psf_files)
  /\ LET stack == Len(heap) + 1
     IN  /\ heap' = Close(Append(heap, NewModel("psf_stack")), psf_models)
         /\ psf_stack' = stack
         /\ events' = events \o
              <<EvCall("stack_refs", <<>>, psf_models, heap[psf_models].items),
                EvReturn("stack_refs", stack, <<>>),
                EvClose(psf_models)>>
  /\ pc' = "save_stack"
  /\ UNCHANGED <<asn, output_dir, psf_files, targ_files, i, t, psf_models, psf_aligned,
                 psf_sub, target_models, resample_input, result, outlier_inplace, nm>>

StackRefsFails ==
  /\ pc = "open_psf"
  /\ i = Len(psf_files)
  /\ events' = events \o
       <<EvCall("stack_refs", <<>>, psf_models, heap[psf_models].items),
         EvRaise("stack_refs")>>
  /\ pc' = "failed"
  /\ UNCHANGED <<asn, output_dir, psf_files, targ_files, i, t, heap, locals, outlier_inplace, nm>>

\* lines 94-96 and 147-149: the path of a product named after the association
ProductFile(product_type) ==
  LET output_file == Format(prod.name, product_type)
  IN  IF ~output_dir.isNone THEN OsPathJoin(output_dir.val, output_file)
      ELSE output_file

\* lines 94-102: save the stack, then resample_input = ModelContainer()
SaveStack ==
  /\ pc = "save_stack"
  /\ events' = Append(events, EvSave(psf_stack, ProductFile(PSFSTACK)))
  /\ heap' = Append(heap, NewModel("resample_input"))
  /\ resample_input' = Len(heap) + 1
  /\ t' = 0
  /\ pc' = "align"
  /\ UNCHANGED <<asn, output_dir, psf_files, targ_files, i, psf_models, psf_stack,
                 psf_aligned, psf_sub, target_models, result, outlier_inplace, nm>>

\* lines 103-112 with the PSF stack rebuilt from psf_models in every iteration
AlignRefs_Restacks ==
  /\ pc = "align"
  /\ t < Len(targ_files)
  /\ LET target_file == targ_files[t + 1]
         stack == Len(heap) + 1
         aligned == Len(heap) + 2
     IN  /\ heap' = Append(Append(heap, NewModel("psf_stack")), NewModel("psf_aligned"))
         /\ psf_stack' = stack
         /\ psf_aligned' = aligned
         /\ events' = events \o
              <<EvCall("stack_refs", <<>>, psf_models, heap[psf_models].items),
                EvReturn("stack_refs", stack, <<>>),
                EvCall("align_refs", target_file, stack, <<>>),
                EvReturn("align_refs", aligned, <<>>),
                EvSave(aligned, mk_filename(output_dir, target_file, PSFALIGN))>>
  /\ pc' = "klip"
  /\ UNCHANGED <<asn, output_dir, psf_files, targ_files, i, t, psf_models,
                 psf_sub, target_models, resample_input, result, outlier_inplace, nm>>

\* lines 105-112: psf_aligned = self.align_refs(target_file, psf_stack); save it
AlignRefs ==
  /\ pc = "align"
  /\ t < Len(targ_files)
  /\ LET target_file == targ_files[t + 1]
         aligned == Len(heap) + 1
     IN  /\ heap' = Append(heap, NewModel("psf_aligned"))
         /\ psf_aligned' = aligned
         /\ events' = events \o
              <<EvCall("align_refs", target_file, psf_stack, <<>>),
                EvReturn("align_refs", aligned, <<>>),
                EvSave(aligned, mk_filename(output_dir, target_file, PSFALIGN))>>
  /\ pc' = "klip"
  /\ UNCHANGED <<asn, output_dir, psf_files, targ_files, i, t, psf_models, psf_stack,
                 psf_sub, target_models, resample_input, result, outlier_inplace, nm>>

AlignRefsFails ==
  /\ pc = "align"
  /\ t < Len(targ_files)
  /\ events' = events \o
       <<EvCall("align_refs", targ_files[t + 1], psf_stack, <<>>), EvRaise("align_refs")>>
  /\ pc' = "failed"
  /\ UNCHANGED <<asn, output_dir, psf_files, targ_files, i, t, heap, locals, outlier_inplace, nm>>

\* lines 114-123 with psf_aligned closed before klip is called on it
Klip_ClosesFirst(nplanes) ==
  /\ pc = "klip"
  /\ LET target_file == targ_files[t + 1]
         sub == Len(heap) + 1
         cube == [NewModel("psf_sub") EXCEPT !.planes = nplanes, !.meta = sub, !.wcs = sub]
     IN  /\ heap' = Close(Append(heap, cube), psf_aligned)
         /\ psf_sub' = sub
         /\ events' = events \o
              <<EvClose(psf_aligned),
                EvCall("klip", target_file, psf_aligned, <<>>),
                EvReturn("klip", sub, <<>>),
                EvSave(sub, mk_filename(output_dir, target_file, PSFSUB))>>
  /\ pc' = "split"
  /\ UNCHANGED <<asn, output_dir, psf_files, targ_files, i, t, psf_models, psf_stack,
                 psf_aligned, target_models, resample_input, result, outlier_inplace, nm>>

\* lines 114-123: psf_sub = self.klip(target_file, psf_aligned);
\* psf_aligned.close(); save psf_sub.  nplanes is psf_sub.data.shape[0].
Klip(nplanes) ==
  /\ pc = "klip"
  /\ LET target_file == targ_files[t + 1]
         sub == Len(heap) + 1
         cube == [NewModel("psf_sub") EXCEPT !.planes = nplanes, !.meta = sub, !.wcs = sub]
     IN  /\ heap' = Close(Append(heap, cube), psf_aligned)
         /\ psf_sub' = sub
         /\ events' = events \o
              <<EvCall("klip", target_file, psf_aligned, <<>>),
                EvReturn("klip", sub, <<>>),
                EvClose(psf_aligned),
                EvSave(sub, mk_filename(output_dir, target_file, PSFSUB))>>
  /\ pc' = "split"
  /\ UNCHANGED <<asn, output_dir, psf_files, targ_files, i, t, psf_models, psf_stack,
                 psf_aligned, target_models, resample_input, result, outlier_inplace, nm>>

\* klip's failure caught in the loop, which goes on with the next target
KlipFails_Caught ==
  /\ pc = "klip"
  /\ events' = events \o
       <<EvCall("klip", targ_files[t + 1], psf_aligned, <<>>), EvRaise("klip")>>
  /\ t' = t + 1
  /\ pc' = "align"
  /\ UNCHANGED <<asn, output_dir, psf_files, targ_files, i, heap, locals, outlier_inplace, nm>>

KlipFails ==
  /\ pc = "klip"
  /\ events' = events \o
       <<EvCall("klip", targ_files[t + 1], psf_aligned, <<>>), EvRaise("klip")>>
  /\ pc' = "failed"
  /\ UNCHANGED <<asn, output_dir, psf_files, targ_files, i, t, heap, locals, outlier_inplace, nm>>

\* the ImageModel of plane k without line 133 (the WCS is not carried over)
PlaneImage_NoWcs(h, sub, k) ==
  [NewModel("image") EXCEPT
     !.data = Plane(sub, "data", k),
     !.err = Plane(sub, "err", k),
     !.dq = Plane(sub, "dq", k),
     !.meta = h[sub].meta]

\* lines 130-133: the ImageModel of plane k (0-based) of the cube sub
PlaneImage(h, sub, k) ==
  [NewModel("image") EXCEPT
     !.data = Plane(sub, "data", k),
     !.err = Plane(sub, "err", k),
     !.dq = Plane(sub, "dq", k),
     !.meta = h[sub].meta,
     !.wcs = h[sub].wcs]

\* lines 128-134: the heap after target_models = ModelContainer() and the
\* loop over range(psf_sub.data.shape[0])
SplitHeap(h, sub) ==
  LET cont == Len(h) + 1
      n == h[sub].planes
  IN  Append(h, [NewModel("target_models") EXCEPT !.items = [k \in 1..n |-> cont + k]])
      \o [k \in 1..n |-> PlaneImage(h, sub, k - 1)]

Split ==
  /\ pc = "split"
  /\ heap' = SplitHeap(heap, psf_sub)
  /\ target_models' = Len(heap) + 1
  /\ pc' = "outlier"
  /\ UNCHANGED <<asn, output_dir, psf_files, targ_files, i, t, psf_models, psf_stack,
                 psf_aligned, psf_sub, resample_input, result, events, outlier_inplace, nm>>

\* lines 140-141 left out: nothing is appended
Accumulate_Drop(h, into, from) == h

\* lines 140-141 as an assignment: the last target replaces the earlier ones
Accumulate_Replace(h, into, from) == [h EXCEPT ![into].items = h[from].items]

\* lines 140-141: resample_input.append(target_models[i]) for every i
Accumulate(h, into, from) == [h EXCEPT ![into].items = @ \o h[from].items]

\* What the outlier_detection step hands back: the container it was given,
\* its members flagged in place, or a new container of the same models.
OutlierDetectionStep(h, cont, inplace) ==
  IF inplace THEN [heap |-> h, ret |-> cont]
  ELSE [heap |-> Append(h, [NewModel("outlier_result") EXCEPT !.items = h[cont].items]),
        ret |-> Len(h) + 1]

\* lines 136-141: target_models = self.outlier_detection(target_models), then
\* append its members to resample_input
OutlierDetection ==
  /\ pc = "outlier"
  /\ LET given == heap[target_models].items
         step == OutlierDetectionStep(heap, target_models, outlier_inplace)
         back == step.ret
         h1 == step.heap
     IN  /\ heap' = Accumulate(h1, resample_input, back)
         /\ target_models' = back
         /\ events' = events \o
              <<EvCall("outlier_detection", <<>>, target_models, given),
                EvReturn("outlier_detection", back, h1[back].items)>>
  /\ t' = t + 1
  /\ pc' = "align"
  /\ UNCHANGED <<asn, output_dir, psf_files, targ_files, i, psf_models, psf_stack,
                 psf_aligned, psf_sub, resample_input, result, outlier_inplace, nm>>

OutlierDetectionFails ==
  /\ pc = "outlier"
  /\ events' = events \o
       <<EvCall("outlier_detection", <<>>, target_models, heap[target_models].items),
         EvRaise("outlier_detection")>>
  /\ pc' = "failed"
  /\ UNCHANGED <<asn, output_dir, psf_files, targ_files, i, t, heap, locals, outlier_inplace, nm>>

\* line 103 leaving the loop over targ_files after any completed iteration
Resample_Early ==
  /\ pc = "align"
  /\ t >= 1
  /\ heap' = Append(heap, NewModel("result"))
  /\ result' = Len(heap) + 1
  /\ events' = events \o
       <<EvCall("resample", <<>>, resample_input, heap[resample_input].items),
         EvReturn("resample", Len(heap) + 1, <<>>)>>
  /\ pc' = "save_final"
  /\ UNCHANGED <<asn, output_dir, psf_files, targ_files, i, t, psf_models, psf_stack,
                 psf_aligned, psf_sub, target_models, resample_input, outlier_inplace, nm>>

\* line 144: result = self.resample(resample_input)
Resample ==
  /\ pc = "align"
  /\ t = Len(targ_files)
  /\ heap' = Append(heap, NewModel("result"))
  /\ result' = Len(heap) + 1
  /\ events' = events \o
       <<EvCall("resample", <<>>, resample_input, heap[resample_input].items),
         EvReturn("resample", Len(heap) + 1, <<>>)>>
  /\ pc' = "save_final"
  /\ UNCHANGED <<asn, output_dir, psf_files, targ_files, i, t, psf_models, psf_stack,
                 psf_aligned, psf_sub, target_models, resample_input, outlier_inplace, nm>>

ResampleFails ==
  /\ pc = "align"
  /\ t = Len(targ_files)
  /\ events' = events \o
       <<EvCall("resample", <<>>, resample_input, heap[resample_input].items),
         EvRaise("resample")>>
  /\ pc' = "failed"
  /\ UNCHANGED <<asn, output_dir, psf_files, targ_files, i, t, heap, locals, outlier_inplace, nm>>

\* lines 146-157: save the final result, close it, return
SaveFinal ==
  /\ pc = "save_final"
  /\ events' = events \o <<EvSave(result, ProductFile(CORONCMB)), EvClose(result)>>
  /\ heap' = Close(heap, result)
  /\ pc' = "done"
  /\ UNCHANGED <<asn, output_dir, psf_files, targ_files, i, t, locals, outlier_inplace, nm>>

Next ==
  \/ Partition
  \/ AbortNoPsf
  \/ AbortNoTarg
  \/ NewPsfModels
  \/ OpenPsf
  \/ OpenPsfFails
  \/ StackRefs
  \/ StackRefsFails
  \/ SaveStack
  \/ AlignRefs
  \/ AlignRefsFails
  \/ \E nplanes \in 0..MaxPlanes : Klip(nplanes)
  \/ KlipFails
  \/ Split
  \/ OutlierDetection
  \/ OutlierDetectionFails
  \/ Resample
  \/ ResampleFails
  \/ SaveFinal

Spec == Init /\ [][Next]_vars

(***************************************************************************)
(* process when every stage call and every file operation returns: no      *)
(* statement raises, and the interpreter runs the next statement whenever  *)
(* there is one.                                                           *)
(***************************************************************************)
NextOk ==
  \/ Partition
  \/ AbortNoPsf
  \/ AbortNoTarg
  \/ NewPsfModels
  \/ OpenPsf
  \/ StackRefs
  \/ SaveStack
  \/ AlignRefs
  \/ \E nplanes \in 0..MaxPlanes : Klip(nplanes)
  \/ Split
  \/ OutlierDetection
  \/ Resample
  \/ SaveFinal

SpecLive == Init /\ [][NextOk]_vars /\ WF_vars(NextOk)

(***************************************************************************)
(* mk_filename on its own: applied to a given path, then to its own        *)
(* result with the same output_dir and suffix.                             *)
(***************************************************************************)
MaxPathLen == 4

PathChars == {"a", "_", ".", "/"}

\* a path that can name a file: its last component is not empty, "." or ".."
IsFilePath(p) ==
  LET tail == OsPathSplit(p)[2]
  IN  tail \notin {<<>>, <<".">>, <<".", ".">>}

Paths == { p \in SeqsUpTo(PathChars, MaxPathLen) : IsFilePath(p) }
Suffixes == {PSFALIGN, PSFSUB}
NameOutputDirs == { None, Some(<<"o">>), Some(<<"o","_","d">>) }

NameInit ==
  /\ pc = "unused"
  /\ asn = [products |-> <<>>]
  /\ output_dir = None
  /\ psf_files = <<>>
  /\ targ_files = <<>>
  /\ i = 0
  /\ t = 0
  /\ heap = <<>>
  /\ psf_models = 0 /\ psf_stack = 0 /\ psf_aligned = 0 /\ psf_sub = 0
  /\ target_models = 0 /\ resample_input = 0 /\ result = 0
  /\ events = <<>>
  /\ outlier_inplace = TRUE
  /\ \E od \in NameOutputDirs, filename \in Paths, suffix \in Suffixes :
       nm = [pc |-> "given", output_dir |-> od, filename |-> filename,
             suffix |-> suffix, once |-> <<>>, twice |-> <<>>]

NameOnce ==
  /\ nm.pc = "given"
  /\ nm' = [nm EXCEPT !.pc = "once",
                      !.once = mk_filename(nm.output_dir, nm.filename, nm.suffix)]
  /\ UNCHANGED <<pc, asn, output_dir, psf_files, targ_files, i, t, heap, locals, events, outlier_inplace>>

NameTwice ==
  /\ nm.pc = "once"
  /\ nm' = [nm EXCEPT !.pc = "twice",
                      !.twice = mk_filename(nm.output_dir, nm.once, nm.suffix)]
  /\ UNCHANGED <<pc, asn, output_dir, psf_files, targ_files, i, t, heap, locals, events, outlier_inplace>>

NameNext == NameOnce \/ NameTwice

SpecName == NameInit /\ [][NameNext]_vars

(***************************************************************************)
(* Vocabulary of the properties.                                           *)
(***************************************************************************)
\* two characters that differ at most in case
SameLetter(a, b) ==
  \/ a = b
  \/ \E k \in 1..26 : {a, b} = {Lower[k], UpperCase[k]}

\* two exposure types that are equal up to case
SameTag(x, y) ==
  /\ Len(x) = Len(y)
  /\ \A k \in 1..Len(x) : SameLetter(x[k], y[k])

\* positions, in the first product, of the members of one exposure type
MembersOf(exptype) ==
  { k \in 1..Len(prod.members) : SameTag(prod.members[k].exptype, exptype) }

\* the history restricted to one kind of record
Calls(stage) == SelectSeq(events, LAMBDA e : e.op = "call" /\ e.name = stage)
Returns(stage) == SelectSeq(events, LAMBDA e : e.op = "return" /\ e.name = stage)
Saves == SelectSeq(events, LAMBDA e : e.op = "save")
Opens == SelectSeq(events, LAMBDA e : e.op = "open")
StageCalls == SelectSeq(events, LAMBDA e : e.op = "call")

Range(q) == { q[k] : k \in 1..Len(q) }
SavedPaths == { e.file : e \in Range(Saves) }

\* the data planes of the cubes subs[1], subs[2], ..., cube by cube
RECURSIVE PlanesOfCubes(_)
PlanesOfCubes(subs) ==
  IF subs = <<>> THEN <<>>
  ELSE [k \in 1..heap[Head(subs)].planes |-> Plane(Head(subs), "data", k - 1)]
       \o PlanesOfCubes(Tail(subs))

\* the cubes klip has returned so far, in order
Cubes == [k \in 1..Len(Returns("klip")) |-> Returns("klip")[k].obj]

\* the data plane each member of a collection was built from
DataOf(coll) == [k \in 1..Len(coll) |-> heap[coll[k]].data]

RECURSIVE Flatten(_)
Flatten(qq) == IF qq = <<>> THEN <<>> ELSE Head(qq) \o Flatten(Tail(qq))

(***************************************************************************)
(* C1: with at least one PSF member and one SCIENCE member, a run in which *)
(* every stage succeeds ends with one final output file and 1 + 2*N        *)
(* intermediate output files, N the number of SCIENCE members, the files   *)
(* counted as distinct output paths.                                       *)
(***************************************************************************)
\* (Checked on associations whose members all name different files: the
\* count fails even there.)
DistinctExpnames ==
  \A j, k \in 1..Len(prod.members) :
    j # k => prod.members[j].expname # prod.members[k].expname

C1_FileCount ==
  (pc = "done" /\ MembersOf(EXP_PSF) # {} /\ MembersOf(EXP_SCIENCE) # {}
     /\ DistinctExpnames) =>
    LET final == ProductFile(CORONCMB)
    IN  /\ final \in SavedPaths
        /\ Cardinality(SavedPaths \ {final}) = 1 + 2 * Cardinality(MembersOf(EXP_SCIENCE))

(***************************************************************************)
(* C2: with no PSF member, process never invokes a stage, never opens or   *)
(* saves a file, and ends in the abort outcome.                            *)
(***************************************************************************)
C2_NoPsfAborts ==
  MembersOf(EXP_PSF) = {} =>
    /\ events = <<>>
    /\ heap = <<>>
    /\ pc \in {"start", "partitioned", "abort"}

C2_Witness ==
  /\ pc = "abort"
  /\ MembersOf(EXP_PSF) = {}
  /\ Cardinality(MembersOf(EXP_SCIENCE)) >= 2

(***************************************************************************)
(* C3: with no SCIENCE member, whatever the number of PSF members, process *)
(* opens no PSF file, does not invoke stack_refs (or any stage), saves     *)
(* nothing, and ends in the abort outcome.                                 *)
(***************************************************************************)
C3_NoTargAborts ==
  MembersOf(EXP_SCIENCE) = {} =>
    /\ Opens = <<>>
    /\ StageCalls = <<>>
    /\ Saves = <<>>
    /\ heap = <<>>
    /\ pc \in {"start", "partitioned", "abort"}

C3_Witness ==
  /\ pc = "abort"
  /\ MembersOf(EXP_SCIENCE) = {}
  /\ Cardinality(MembersOf(EXP_PSF)) >= 2

(***************************************************************************)
(* C4, as claimed: outlier_detection is invoked on the full accumulated    *)
(* collection, after every target branch has completed and with the planes *)
(* of all targets, and what it returns is what resample receives.          *)
(***************************************************************************)
C4_OutlierOnFullCollection ==
  \A k \in 1..Len(events) :
    (events[k].op = "call" /\ events[k].name = "outlier_detection") =>
      /\ Len(Cubes) = Len(targ_files)
      /\ DataOf(events[k].coll) = PlanesOfCubes(Cubes)
      /\ \A r \in Range(Calls("resample")) :
           \E b \in Range(Returns("outlier_detection")) : r.arg = b.obj

(***************************************************************************)
(* C4, amended: outlier_detection is invoked once in every target          *)
(* iteration, on a collection holding exactly the planes of that target's  *)
(* subtraction result, in plane order; the members of the collections it   *)
(* returns, in call order, are the collection passed to resample.          *)
(***************************************************************************)
C4_OutlierPerTarget ==
  LET od == Calls("outlier_detection")
      back == Returns("outlier_detection")
  IN  /\ Len(od) \in {t, t + 1}
      /\ Len(od) <= Len(Cubes)
      /\ \A j \in 1..Len(od) :
           /\ DataOf(od[j].coll) = PlanesOfCubes(<<Cubes[j]>>)
           /\ od[j].coll = heap[od[j].arg].items
      /\ pc \in {"align", "save_final", "done"} =>
           /\ Len(back) = t
           /\ heap[resample_input].items = Flatten([j \in 1..Len(back) |-> back[j].coll])
      /\ \A k \in 1..Len(events) :
           (events[k].op = "call" /\ events[k].name = "resample") =>
             /\ Len(back) = Len(targ_files)
             /\ events[k].coll = Flatten([j \in 1..Len(back) |-> back[j].coll])

C4_Witness ==
  /\ pc = "done"
  /\ Len(targ_files) = 2
  /\ Len(Calls("outlier_detection")) = 2
  /\ heap[Cubes[1]].planes = 1
  /\ heap[Cubes[2]].planes = 2
  /\ ~outlier_inplace

(***************************************************************************)
(* C5: the accumulated collection is the concatenation, in target order,   *)
(* of each target's planes in plane order; resample is invoked at most     *)
(* once, exactly once in a completed run, on that full collection and only *)
(* after every target branch has completed.                                *)
(***************************************************************************)
C5_AccumulatedInOrder ==
  LET rs == Calls("resample")
      all == heap[resample_input].items
  IN  /\ Len(rs) <= 1
      /\ pc \in {"save_final", "done"} => Len(rs) = 1
      /\ pc = "align" =>
           /\ Len(Cubes) = t
           /\ DataOf(all) = PlanesOfCubes(Cubes)
      /\ Len(rs) = 1 =>
           /\ Len(Cubes) = Len(targ_files)
           /\ Len(Returns("outlier_detection")) = Len(targ_files)
           /\ rs[1].arg = resample_input
           /\ rs[1].coll = all
           /\ DataOf(all) = PlanesOfCubes(Cubes)
           /\ \A j, k \in 1..Len(all) : j # k => all[j] # all[k]
           /\ \A k \in 1..Len(events) :
                (events[k].op = "call" /\ events[k].name = "resample") =>
                  \A j \in (k + 1)..Len(events) : events[j].op # "call"

C5_Witness ==
  /\ pc = "done"
  /\ Len(psf_files) >= 1
  /\ Len(targ_files) = 2
  /\ heap[Cubes[1]].planes = 1
  /\ heap[Cubes[2]].planes = 2
  /\ Len(Calls("resample")[1].coll) = 3

(***************************************************************************)
(* C6: for a subtraction result of K planes (K >= 0) the split builds      *)
(* exactly K single-plane models, the k-th from plane k of the data, err   *)
(* and dq arrays, each with the subtraction result's metadata and its WCS  *)
(* object.                                                                 *)
(***************************************************************************)
C6_SplitPlanes ==
  pc = "outlier" =>
    LET planes == heap[target_models].items
    IN  /\ Len(planes) = heap[psf_sub].planes
        /\ \A k \in 1..Len(planes) :
             /\ heap[planes[k]].role = "image"
             /\ heap[planes[k]].data = <<psf_sub, "data", k - 1>>
             /\ heap[planes[k]].err = <<psf_sub, "err", k - 1>>
             /\ heap[planes[k]].dq = <<psf_sub, "dq", k - 1>>
             /\ heap[planes[k]].meta = heap[psf_sub].meta
             /\ heap[planes[k]].wcs = heap[psf_sub].wcs
             /\ heap[planes[k]].wcs # 0
        /\ \A j, k \in 1..Len(planes) : j # k => planes[j] # planes[k]

C6_Witness ==
  /\ pc = "outlier"
  /\ heap[psf_sub].planes = 2
  /\ Len(heap[target_models].items) = 2
  /\ t = 1

\* the split of a result without planes
C6_WitnessEmpty ==
  /\ pc = "outlier"
  /\ heap[psf_sub].planes = 0
  /\ heap[target_models].items = <<>>

(***************************************************************************)
(* C7: mk_filename is idempotent: applied with the same output_dir and     *)
(* suffix to its own result, it returns that result.                       *)
(***************************************************************************)
C7_Idempotent ==
  nm.pc = "twice" => nm.twice = nm.once

(***************************************************************************)
(* C8: with output_dir set, every saved file (psfstack, psfalign, psfsub,  *)
(* final product) has exactly output_dir as its directory component, and   *)
(* the file name it would have without output_dir.                         *)
(***************************************************************************)
SavesOf(role) == SelectSeq(Saves, LAMBDA e : heap[e.obj].role = role)

C8_AllUnderOutputDir ==
  ~output_dir.isNone =>
    /\ \A e \in Range(Saves) : OsPathSplit(e.file)[1] = output_dir.val
    /\ \A e \in Range(SavesOf("psf_stack")) :
         OsPathSplit(e.file)[2] = OsPathSplit(Format(prod.name, PSFSTACK))[2]
    /\ \A e \in Range(SavesOf("result")) :
         OsPathSplit(e.file)[2] = OsPathSplit(Format(prod.name, CORONCMB))[2]
    /\ \A j \in 1..Len(SavesOf("psf_aligned")) :
         OsPathSplit(SavesOf("psf_aligned")[j].file)[2]
           = OsPathSplit(mk_filename(None, targ_files[j], PSFALIGN))[2]
    /\ \A j \in 1..Len(SavesOf("psf_sub")) :
         OsPathSplit(SavesOf("psf_sub")[j].file)[2]
           = OsPathSplit(mk_filename(None, targ_files[j], PSFSUB))[2]

(***************************************************************************)
(* C9: after partitioning, psf_files holds the file names of exactly the   *)
(* members of the first product whose exposure type is PSF up to case, in  *)
(* the order of the association, and targ_files those whose type is        *)
(* SCIENCE up to case; members of any other type are in neither list and   *)
(* raise no error; members of other products are in neither list.          *)
(***************************************************************************)
\* q lists the file names of the members at the positions in where, in order
ListsMembers(q, where) ==
  /\ Len(q) = Cardinality(where)
  /\ \A k \in where :
       q[Cardinality({j \in where : j <= k})] = prod.members[k].expname

C9_Partition ==
  pc # "start" =>
    /\ ListsMembers(psf_files, MembersOf(EXP_PSF))
    /\ ListsMembers(targ_files, MembersOf(EXP_SCIENCE))
    /\ MembersOf(EXP_PSF) \cap MembersOf(EXP_SCIENCE) = {}
    /\ \A p \in 2..Len(asn.products) : \A k \in 1..Len(asn.products[p].members) :
         asn.products[p].members[k].expname \notin Range(psf_files) \cup Range(targ_files)
    /\ pc = "partitioned" => events = <<>>

C9_Witness ==
  /\ pc = "partitioned"
  /\ Len(asn.products) = 2
  /\ Len(prod.members) = 3
  /\ \E k \in 1..3 : prod.members[k].exptype = <<"b","k","g">>
  /\ \E k \in 1..3 : prod.members[k].exptype = <<"P","s","f">>
  /\ \E k \in 1..3 : prod.members[k].exptype = <<"s","c","i","e","n","c","e">>
  /\ Len(psf_files) = 1
  /\ Len(targ_files) = 1

(***************************************************************************)
(* C10: in a completed run every model and container the run created or    *)
(* received from a stage has been released exactly once.                   *)
(***************************************************************************)
C10_ReleasedExactlyOnce ==
  pc = "done" => \A id \in 1..Len(heap) : heap[id].closes = 1

(***************************************************************************)
(* C11: the one model stack_refs returned is the model passed to           *)
(* align_refs in every target iteration; up to the end of the last         *)
(* iteration process neither closes it nor binds psf_stack to another      *)
(* model.                                                                  *)
(***************************************************************************)
Closes(id) == SelectSeq(events, LAMBDA e : e.op = "close" /\ e.obj = id)

C11_SharedStack ==
  LET made == Returns("stack_refs")
  IN  /\ Len(made) <= 1
      /\ psf_stack # 0 =>
           /\ Len(made) = 1
           /\ psf_stack = made[1].obj
           /\ heap[psf_stack].role = "psf_stack"
      /\ \A c \in Range(Calls("align_refs")) :
           /\ Len(made) = 1
           /\ c.arg = made[1].obj
      /\ (psf_stack # 0 /\ pc \in {"save_stack", "align", "klip", "split", "outlier"}) =>
           /\ heap[psf_stack].closes = 0
           /\ Closes(psf_stack) = <<>>

C11_Witness ==
  /\ pc = "align"
  /\ t = 2
  /\ Len(targ_files) = 2
  /\ Len(Calls("align_refs")) = 2
  /\ Calls("align_refs")[1].arg = psf_stack
  /\ Calls("align_refs")[2].arg = psf_stack

(***************************************************************************)
(* C12: the branches of two different SCIENCE members save to different    *)
(* files: their psfalign paths differ and their psfsub paths differ, so no *)
(* branch overwrites a file another branch saved.  (Stated for members     *)
(* that name different files.)                                             *)
(***************************************************************************)
C12_DisjointOutputs ==
  /\ \A j, k \in 1..Len(SavesOf("psf_aligned")) :
       targ_files[j] # targ_files[k] =>
         SavesOf("psf_aligned")[j].file # SavesOf("psf_aligned")[k].file
  /\ \A j, k \in 1..Len(SavesOf("psf_sub")) :
       targ_files[j] # targ_files[k] =>
         SavesOf("psf_sub")[j].file # SavesOf("psf_sub")[k].file

(***************************************************************************)
(* C13: when a stage fails in a target branch after earlier branches       *)
(* succeeded, the PSF stack and every single-plane model accumulated so    *)
(* far have been released when the failure leaves process.                 *)
(***************************************************************************)
LastEvent == events[Len(events)]

FailedInBranch ==
  /\ pc = "failed"
  /\ LastEvent.op = "raise"
  /\ LastEvent.name \in {"align_refs", "klip", "outlier_detection"}
  /\ t >= 1
  /\ heap[resample_input].items # <<>>

C13_ReleasedOnBranchFailure ==
  FailedInBranch =>
    /\ heap[psf_stack].closes >= 1
    /\ \/ heap[resample_input].closes >= 1
       \/ \A k \in 1..Len(heap[resample_input].items) :
            heap[heap[resample_input].items[k]].closes >= 1

(***************************************************************************)
(* C14: when opening the k-th PSF file fails, the models opened for files  *)
(* 1..k-1 and the container psf_models have all been released when the     *)
(* error leaves process.                                                   *)
(***************************************************************************)
FailedInOpen ==
  /\ pc = "failed"
  /\ LastEvent.op = "raise"
  /\ LastEvent.name = "open"

C14_ReleasedOnOpenFailure ==
  FailedInOpen =>
    /\ \A k \in 1..Len(heap[psf_models].items) :
         heap[heap[psf_models].items[k]].closes >= 1
    /\ heap[psf_models].closes >= 1

(***************************************************************************)
(* C15: a failure raised by a stage is neither caught nor retried: it is   *)
(* the last thing the run does (no later stage call, save, open or close), *)
(* it follows the call of the stage that raised, and the run ends in the   *)
(* failure outcome, which is neither done nor abort and has no successor.  *)
(***************************************************************************)
Stages == {"stack_refs", "align_refs", "klip", "outlier_detection", "resample"}

C15_FailurePropagates ==
  /\ \A k \in 1..Len(events) :
       (events[k].op = "raise" /\ events[k].name \in Stages) =>
         /\ k = Len(events)
         /\ pc = "failed"
         /\ k > 1
         /\ events[k - 1].op = "call"
         /\ events[k - 1].name = events[k].name
         /\ Len(Calls(events[k].name)) = Len(Returns(events[k].name)) + 1
  /\ pc = "failed" =>
       /\ LastEvent.op = "raise"
       /\ ~ENABLED Next
  /\ pc \in {"done", "abort"} => \A e \in Range(events) : e.op # "raise"

C15_Witness ==
  /\ pc = "failed"
  /\ LastEvent.name = "klip"
  /\ t = 1
  /\ Len(Saves) = 4
  /\ Len(Calls("klip")) = 2

(***************************************************************************)
(* C16: in every target iteration: align_refs is called with the target    *)
(* and the PSF stack; its result is saved under psfalign; klip is called   *)
(* with the target and that result; the result is closed; the subtraction  *)
(* result is saved under psfsub; then the planes are split.  The aligned   *)
(* model is closed exactly once per iteration, after klip has returned.    *)
(***************************************************************************)
\* the models built from the planes of cube sub
ImagesOf(sub) == { id \in 1..Len(heap) : heap[id].data[1] = sub }

\* the positions in events of the calls of align_refs, in order
AlignCallAt ==
  SelectSeq([k \in 1..Len(events) |-> k],
            LAMBDA k : events[k].op = "call" /\ events[k].name = "align_refs")

IterationOrder ==
  /\ \A j \in 1..Len(AlignCallAt) :
         LET k == AlignCallAt[j]
             target == targ_files[j]
             n == Len(events) - k
             aligned == events[k + 1].obj
             sub == events[k + 4].obj
         IN  /\ j <= Len(targ_files)
             /\ events[k].file = target
             /\ events[k].arg = psf_stack
             /\ n >= 1
             /\ events[k + 1].name = "align_refs"
             /\ events[k + 1].op \in {"return", "raise"}
             /\ events[k + 1].op = "return" =>
                  /\ n >= 2
                  /\ events[k + 2] = EvSave(aligned, mk_filename(output_dir, target, PSFALIGN))
                  /\ Len(Closes(aligned)) = (IF n >= 5 THEN 1 ELSE 0)
                  /\ heap[aligned].closes = Len(Closes(aligned))
             /\ n >= 3 =>
                  /\ n >= 4
                  /\ events[k + 3] = EvCall("klip", target, aligned, <<>>)
                  /\ events[k + 4].name = "klip"
                  /\ events[k + 4].op \in {"return", "raise"}
                  /\ events[k + 4].op = "return" =>
                       /\ n >= 6
                       /\ events[k + 5] = EvClose(aligned)
                       /\ events[k + 6] = EvSave(sub, mk_filename(output_dir, target, PSFSUB))
                       /\ n = 6 => /\ pc \in {"split", "outlier"}
                                   /\ psf_sub = sub
                                   /\ pc = "split" => ImagesOf(sub) = {}
             /\ n >= 7 =>
                  /\ events[k + 7].op = "call"
                  /\ events[k + 7].name = "outlier_detection"
                  /\ Range(events[k + 7].coll) = ImagesOf(sub)
  /\ pc \in {"klip", "split", "outlier"} => Len(Calls("align_refs")) = t + 1

\* events is a history: a step only appends to it, so the order of the events
\* is the order in which process did them
C16_IterationOrder ==
  /\ []IterationOrder
  /\ [][/\ Len(events') >= Len(events)
        /\ SubSeq(events', 1, Len(events)) = events]_vars

C16_Witness ==
  /\ pc = "align"
  /\ t = 2
  /\ ~output_dir.isNone
  /\ Len(Calls("klip")) = 2
  /\ Len(SavesOf("psf_aligned")) = 2
  /\ Len(SavesOf("psf_sub")) = 2
  /\ \A c \in Range(Calls("klip")) : heap[c.arg].closes = 1

(***************************************************************************)
(* C17: the run is linear: stack_refs is called exactly once and before    *)
(* every align_refs call, the psfstack file is saved before the first      *)
(* target iteration, the final save follows resample, and the run aborts   *)
(* only from the partitioning of the members, so a run that called a stage *)
(* or saved a file never ends aborted.                                     *)
(***************************************************************************)
\* the edges of process: the only edge to an earlier position closes the loop
\* over the targets, and it advances t
Edges ==
  {<<"start", "partitioned">>, <<"partitioned", "abort">>, <<"partitioned", "open_psf">>,
   <<"open_psf", "open_psf">>, <<"open_psf", "save_stack">>, <<"save_stack", "align">>,
   <<"align", "klip">>, <<"klip", "split">>, <<"split", "outlier">>,
   <<"outlier", "align">>, <<"align", "save_final">>, <<"save_final", "done">>,
   <<"open_psf", "failed">>, <<"align", "failed">>, <<"klip", "failed">>,
   <<"outlier", "failed">>}

LinearOrder ==
  /\ Len(Calls("stack_refs")) <= 1
  /\ pc \in {"save_stack", "align", "klip", "split", "outlier", "save_final", "done"} =>
       Len(Returns("stack_refs")) = 1
  /\ \A k \in 1..Len(events) :
       /\ (events[k].op = "call" /\ events[k].name = "align_refs") =>
            /\ \E m \in 1..(k - 1) : events[m].op = "return" /\ events[m].name = "stack_refs"
            /\ \E m \in 1..(k - 1) : /\ events[m].op = "save"
                                     /\ events[m].obj = psf_stack
                                     /\ events[m].file = ProductFile(PSFSTACK)
       /\ (events[k].op = "save" /\ heap[events[k].obj].role = "result") =>
            /\ k >= 2
            /\ events[k - 1].op = "return"
            /\ events[k - 1].name = "resample"
            /\ events[k - 1].obj = events[k].obj
            /\ \A m \in (k + 1)..Len(events) : events[m].op = "close"
  /\ pc = "abort" => /\ events = <<>>
                     /\ heap = <<>>
                     /\ psf_files = <<>> \/ targ_files = <<>>
  /\ pc = "done" => /\ Len(SavesOf("result")) = 1
                    /\ Len(SavesOf("psf_stack")) = 1

C17_LinearRun ==
  /\ []LinearOrder
  /\ [][/\ <<pc, pc'>> \in Edges
        /\ pc' = "abort" => pc = "partitioned"
        /\ (pc = "outlier" /\ pc' = "align") => t' = t + 1
        /\ (pc = "open_psf" /\ pc' = "open_psf") => i' = i + 1]_vars

C17_Witness ==
  /\ pc = "done"
  /\ Len(targ_files) = 2
  /\ Len(Calls("stack_refs")) = 1
  /\ Len(Calls("align_refs")) = 2
  /\ Len(SavesOf("psf_stack")) = 1
  /\ Len(SavesOf("result")) = 1

(***************************************************************************)
(* C18: no model is passed to a stage or saved after it has been closed;   *)
(* in particular every member of psf_models is unclosed when stack_refs is *)
(* called on psf_models.                                                   *)
(***************************************************************************)
ClosedBefore(id, k) ==
  \E m \in 1..(k - 1) : events[m].op = "close" /\ events[m].obj = id

C18_NoUseAfterClose ==
  \A k \in 1..Len(events) :
    /\ events[k].op = "call" =>
         /\ events[k].arg # 0 => ~ClosedBefore(events[k].arg, k)
         /\ \A member \in Range(events[k].coll) : ~ClosedBefore(member, k)
    /\ events[k].op = "save" => ~ClosedBefore(events[k].obj, k)

(***************************************************************************)
(* C19: when the name of the input file (before its extension) contains an *)
(* underscore, mk_filename returns that name cut at its last underscore,   *)
(* then '_', the suffix and the extension, in the input's own directory    *)
(* when output_dir is None; when the input path contains no underscore at  *)
(* all, the name loses its last character instead.                         *)
(***************************************************************************)
\* the file name the claim describes for the input path filename
ClaimedName(filename, suffix) ==
  LET tail == OsPathSplit(filename)[2]
      stem == OsPathSplitext(tail)[1]
      ext == OsPathSplitext(tail)[2]
      cut == IF "_" \in Range(stem) THEN RFind(stem, "_") ELSE Len(stem) - 1
  IN  SubSeq(stem, 1, cut) \o <<"_">> \o suffix \o ext

\* the part of filename in front of its last component, separator included
DirPrefix(filename) ==
  SubSeq(filename, 1, Len(filename) - Len(OsPathSplit(filename)[2]))

NameCase(filename) ==
  \/ "_" \in Range(OsPathSplitext(OsPathSplit(filename)[2])[1])
  \/ "_" \notin Range(filename)

C19_NameShape ==
  (nm.pc \in {"once", "twice"} /\ NameCase(nm.filename)) =>
    /\ OsPathSplit(nm.once)[2] = ClaimedName(nm.filename, nm.suffix)
    /\ nm.output_dir.isNone =>
         nm.once = DirPrefix(nm.filename) \o ClaimedName(nm.filename, nm.suffix)

(***************************************************************************)
(* C20: when every stage call and file operation returns, process          *)
(* terminates, done or aborted; a done run has called align_refs and klip  *)
(* exactly once per SCIENCE member, in the order of the members, and has   *)
(* opened every PSF file exactly once, in the order of the members; an     *)
(* aborted run has called no stage and opened no file.                     *)
(***************************************************************************)
FilesOf(evs) == [k \in 1..Len(evs) |-> evs[k].file]

OncePerMember ==
  /\ FilesOf(Calls("align_refs")) = targ_files
  /\ FilesOf(Calls("klip")) = targ_files
  /\ FilesOf(Opens) = psf_files

\* the statement without the distinction between done and aborted runs
C20_OncePerMemberAtEnd ==
  pc \in {"done", "abort"} => OncePerMember

C20_Terminates ==
  /\ <>(pc \in {"done", "abort"})
  /\ [](pc = "done" => OncePerMember)
  /\ [](pc = "abort" => (events = <<>> /\ heap = <<>>))
  /\ [](pc # "failed")

C20_Witness ==
  /\ pc = "done"
  /\ Len(targ_files) = 2
  /\ targ_files[1] # targ_files[2]
  /\ Len(psf_files) = 1
  /\ FilesOf(Calls("klip")) = targ_files
  /\ Len(Opens) = 1

====
